---- MODULE Spec2Model ----
(***************************************************************************)
(* Notes server: the file-backed note store (readNotes / writeNotes) and   *)
(* the request handlers built on it, in the hardened variant               *)
(* (src/unnamed/part_000) and the plain variant (src/server.js).           *)
(*                                                                         *)
(* A request is a process whose position (pc) is the await at which the    *)
(* handler is suspended; everything the code runs synchronously between    *)
(* two awaits is one step.  The file system is the directory entries of    *)
(* the notes file and of the shared temp file, their contents, and the     *)
(* open descriptor each in-flight fs.writeFile holds.                      *)
(***************************************************************************)
EXTENDS Integers, Sequences, FiniteSets, TLC

\* ------------------------------------------------------------------ bounds
\* Largest value of the wall clock (Date.now()) in a run.
MaxClock == 3
\* Number of requests the server accepts in a run.
MaxRequests == 3
\* Number of requests the server accepts in a run with two in flight.
MaxRaceRequests == 3
\* Number of requests the server accepts in a run with failing file I/O.
MaxFaultRequests == 2

\* The concurrent request slots of the server.
Procs == {1, 2}

\* ------------------------------------------------------------- JS values
\* Request-body values are JSON values; each is written as a string so that
\* values of different JS types can be compared: "undefined" is the absent
\* key, "null" is null, "true"/"false" are the booleans, "" is the empty
\* string and every other string is itself.
Undefined == "undefined"
Null == "null"
JsTrue == "true"
JsFalse == "false"

\* !v in JavaScript, for the values above.
Falsy(v) == v \in {Undefined, Null, JsFalse, ""}

\* a || b
Or(a, b) == IF Falsy(a) THEN b ELSE a

\* The keys the handlers destructure from req.body.
BodyKeys == {"title", "content", "category", "reminderDate", "isReminder", "completed"}

\* Keys a request body can carry besides those.
ExtraKeys == {"id", "createdAt", "updatedAt", "color"}

\* req.body with no key.
NoBody == [k \in BodyKeys \cup ExtraKeys |-> Undefined]

\* Date.now().toString(): the decimal digits of the clock.
IdOf(t) == ToString(t)

\* ------------------------------------------------------- file contents
\* A file's content: the complete JSON text of an array of notes
\* ("array"), a zero-length file ("empty"), a proper prefix of the text of
\* an array ("partial"), bytes of two different texts ("mixed"), some other
\* unparsable text ("garbage"), a JSON text that is not an array
\* ("nonarray"); "absent" is a path with no directory entry.
Content(k, n) == [kind |-> k, notes |-> n]

Absent == Content("absent", <<>>)
EmptyText == Content("empty", <<>>)
Garbage == Content("garbage", <<>>)
NonArray == Content("nonarray", <<>>)
Mixed == Content("mixed", <<>>)
Partial(n) == Content("partial", n)

\* JSON.stringify(notes, null, 2)
Stringify(n) == Content("array", n)

\* data.trim() is empty
IsBlank(c) == c.kind = "empty"

\* JSON.parse(data) throws
ParseThrows(c) == c.kind \in {"empty", "partial", "mixed", "garbage"}

\* Array.isArray(JSON.parse(data))
ParsesToArray(c) == c.kind = "array"

\* Parse losing every element after the first.
ParseFirst(c) == IF c.notes = <<>> THEN <<>> ELSE <<Head(c.notes)>>

\* JSON.parse(data), for a text that parses to an array
Parse(c) == c.notes


\* ----------------------------------------------------------------- notes
\* new Date().toISOString() is an order-preserving encoding of the clock;
\* createdAt and updatedAt hold the clock value it encodes.

\* NewNote with the two new Date() values in each other's field.
NewNoteSwapped(body, t1, t2, t3) ==
  [id |-> IdOf(t1),
   title |-> body.title,
   content |-> body.content,
   category |-> Or(body.category, "Personal"),
   reminderDate |-> Or(body.reminderDate, Null),
   isReminder |-> Or(body.isReminder, JsFalse),
   completed |-> JsFalse,
   createdAt |-> t3,
   updatedAt |-> t2]

\* The note the create handler builds: Date.now() read at t1, the two
\* new Date() at t2 and t3.
NewNote(body, t1, t2, t3) ==
  [id |-> IdOf(t1),
   title |-> body.title,
   content |-> body.content,
   category |-> Or(body.category, "Personal"),
   reminderDate |-> Or(body.reminderDate, Null),
   isReminder |-> Or(body.isReminder, JsFalse),
   completed |-> JsFalse,
   createdAt |-> t2,
   updatedAt |-> t3]

\* CreateInvalid looking at the title only (!title).
CreateInvalidTitleOnly(body) == Falsy(body.title)

\* !title || !content
CreateInvalid(body) == Falsy(body.title) \/ Falsy(body.content)

\* Patched taking the stored value for every falsy patch value (v || old).
PatchedIfTruthy(old, v) == IF Falsy(v) THEN old ELSE v

\* ...(k !== undefined && { k }) for one of the six keys
Patched(old, v) == IF v # Undefined THEN v ELSE old

\* MergeNote taking id from the body too (...(id !== undefined && { id })).
MergeNoteBodyId(note, body, t) ==
  [id |-> Patched(note.id, body.id),
   title |-> Patched(note.title, body.title),
   content |-> Patched(note.content, body.content),
   category |-> Patched(note.category, body.category),
   reminderDate |-> Patched(note.reminderDate, body.reminderDate),
   isReminder |-> Patched(note.isReminder, body.isReminder),
   completed |-> Patched(note.completed, body.completed),
   createdAt |-> note.createdAt,
   updatedAt |-> t]

\* The object the update handler stores at notes[index].
MergeNote(note, body, t) ==
  [id |-> note.id,
   title |-> Patched(note.title, body.title),
   content |-> Patched(note.content, body.content),
   category |-> Patched(note.category, body.category),
   reminderDate |-> Patched(note.reminderDate, body.reminderDate),
   isReminder |-> Patched(note.isReminder, body.isReminder),
   completed |-> Patched(note.completed, body.completed),
   createdAt |-> note.createdAt,
   updatedAt |-> t]

\* notes.findIndex(n => n.id === id) + 1: 0 when no note matches.
FindIndex(notes, id) ==
  IF \E i \in 1..Len(notes) : notes[i].id = id
  THEN CHOOSE i \in 1..Len(notes) :
         /\ notes[i].id = id
         /\ \A j \in 1..(i - 1) : notes[j].id # id
  ELSE 0

KeepOther(n, id) == n.id # id

\* notes.filter(n => n.id !== id)
FilterOut(notes, id) ==
  LET F[i \in 0..Len(notes)] ==
        IF i = 0 THEN <<>>
        ELSE IF KeepOther(notes[i], id) THEN Append(F[i - 1], notes[i])
        ELSE F[i - 1]
  IN F[Len(notes)]

\* --------------------------------------------------------------- state
VARIABLES
  files,    \* [data, tmp]: the content at DATA_FILE and at DATA_FILE.tmp
  backups,  \* the content at DATA_FILE.corrupted.<t>, by t
  now,      \* the wall clock, Date.now()
  procs,    \* the requests in flight, by slot
  started,  \* requests accepted so far
  client    \* the page (public/app.js): notes, currentFilter, the cards
            \* shown, shownReminders and the notifications shown

vars == <<files, backups, now, procs, started, client>>

\* The response body of a request that answers with no note.
NoNote ==
  [id |-> "", title |-> Undefined, content |-> Undefined,
   category |-> Undefined, reminderDate |-> Undefined,
   isReminder |-> Undefined, completed |-> Undefined,
   createdAt |-> 0, updatedAt |-> 0]

\* A slot with no request.  pc is the await the handler is suspended at;
\* read is the collection readNotes returned, wdata the argument of the
\* writeNotes call in progress and ctx its caller ("heal": readNotes,
\* "handler": the route handler); fd is where the descriptor of the
\* fs.writeFile in progress points; data is what readNotes' fs.readFile
\* resolved with, bak is corruptedData and bakAt the Date.now() in
\* backupFile; data and bakAt are kept until the slot is free.  wret is what
\* the handler's writeNotes call returned ("none" before it has), renamed
\* that its fs.rename completed, raced that it returned while the other
\* slot's request was between its readNotes and the return of its
\* writeNotes.  arg is the kind of value a caller other than a handler
\* passed to writeNotes ("none" for a handler's request).
Idle ==
  [pc |-> "idle", op |-> "none", id |-> "", body |-> NoBody, arg |-> "none",
   read |-> <<>>, wdata |-> <<>>, ctx |-> "none", fd |-> "none",
   data |-> Absent, bak |-> Absent, bakAt |-> 0, wret |-> "none",
   renamed |-> FALSE,
   raced |-> FALSE, status |-> 0, result |-> NoNote]

\* A note an earlier run of the server stored, created at clock 0.
Seed == NewNote([NoBody EXCEPT !.title = "T", !.content = "C"], 0, 0, 0)

\* The store as startServer leaves it or finds it: ensureDataDir writes
\* "[]" when the file is missing and leaves an existing file as it is,
\* whatever it holds; the file may also have been removed since.
InitContents == {Stringify(<<>>), EmptyText, Garbage, NonArray, Absent}

\* The stores the runs with two requests in flight start from.
RaceContents == {Stringify(<<Seed>>)}

\* The page when its script has run: notes = [], currentFilter = 'all', an
\* empty grid, shownReminders = new Set().  alerts are the reminder
\* notifications shown so far, each with the note it was shown for and the
\* clock of the checkReminders call that showed it, and loaded is that the
\* loadNotes call of the DOMContentLoaded handler has returned.
ClientInit ==
  [notes |-> <<>>, filter |-> "all", shown |-> <<>>, shownReminders |-> {},
   alerts |-> <<>>, loaded |-> FALSE]

InitOf(contents) ==
  /\ client = ClientInit
  /\ files \in [data : contents, tmp : {Absent}]
  /\ backups = [t \in 1..MaxClock |-> Absent]
  /\ now = 1
  /\ procs = [p \in Procs |-> Idle]
  /\ started = 0

Init == InitOf(InitContents)

InitRace == InitOf(RaceContents)

\* ------------------------------------------------------------ requests
\* The requests a client sends.  A patch sets none, all or half of the six
\* keys to a new value (each key is in one half and missing from the
\* other; one half comes with unknown keys), or one key to a falsy value.
NewVal ==
  [title |-> "T2", content |-> "C2", category |-> "Work",
   reminderDate |-> "R", isReminder |-> JsTrue, completed |-> JsTrue]

BodyOf(S) == [k \in DOMAIN NoBody |-> IF k \in S THEN NewVal[k] ELSE Undefined]

\* A patch that carries, besides half of the known keys, keys the handler
\* does not destructure.
ExtraPatch ==
  [BodyOf({"title", "category", "isReminder"}) EXCEPT
     !.id = "9", !.createdAt = "X", !.updatedAt = "X", !.color = "red"]

FalsyPatches ==
  {[NoBody EXCEPT !.title = ""], [NoBody EXCEPT !.completed = JsFalse],
   [NoBody EXCEPT !.reminderDate = Null], [NoBody EXCEPT !.category = ""]}

PatchBodies ==
  {BodyOf({}), BodyOf(BodyKeys), ExtraPatch,
   BodyOf({"content", "reminderDate", "completed"})} \cup FalsyPatches

CreateBodies ==
  {[NoBody EXCEPT !.title = "T", !.content = "C"],
   [NoBody EXCEPT !.title = "T", !.content = "C", !.category = "School",
                  !.reminderDate = "R", !.isReminder = JsTrue],
   [NoBody EXCEPT !.title = "T", !.content = "C", !.category = "",
                  !.completed = JsTrue],
   [NoBody EXCEPT !.title = "", !.content = "C"],
   [NoBody EXCEPT !.title = "T"]}

\* req.params.id
Ids == {IdOf(t) : t \in 1..MaxClock}

Request(op, id, body) == [op |-> op, id |-> id, body |-> body]

Requests ==
  {Request("list", "", NoBody)}
    \cup {Request("get", i, NoBody) : i \in Ids}
    \cup {Request("create", "", b) : b \in CreateBodies}
    \cup {Request("update", i, b) : i \in Ids, b \in PatchBodies}
    \cup {Request("delete", i, NoBody) : i \in Ids}

\* The requests of the runs with two requests in flight.
FewRequests ==
  {Request("create", "", [NoBody EXCEPT !.title = "T", !.content = "C"]),
   Request("update", IdOf(0), BodyOf({"completed"})),
   Request("delete", IdOf(0), NoBody)}

\* ------------------------------------------------------------ handlers
\* res.status(st).json(body): the request is answered.
Answer(pr, st, body) ==
  [pr EXCEPT !.pc = "done", !.status = st, !.result = body,
             !.ctx = "none", !.fd = "none"]

\* writeNotes(data) up to its first await: the argument is an array, the
\* text is built, fs.writeFile(tempFile) is issued.
CallWrite(pr, data, ctx) == [pr EXCEPT !.pc = "wOpen", !.wdata = data, !.ctx = ctx]

\* AfterRead with update and delete not answering 404: a missing note is
\* taken to be the first one, and delete writes whatever filter left.
AfterReadUnchecked(pr, notes, t1, t2, t3) ==
  LET r == [pr EXCEPT !.read = notes, !.ctx = "none"]
      found == FindIndex(notes, pr.id)
      idx == IF found = 0 /\ notes # <<>> THEN 1 ELSE found
      created == NewNote(pr.body, t1, t2, t3)
      kept == FilterOut(notes, pr.id)
  IN CASE pr.op = "list" -> Answer(r, 200, NoNote)
       [] pr.op = "get" ->
            IF idx = 0 THEN Answer(r, 404, NoNote) ELSE Answer(r, 200, notes[idx])
       [] pr.op = "create" ->
            CallWrite([r EXCEPT !.result = created], Append(notes, created), "handler")
       [] pr.op = "update" ->
            IF idx = 0 THEN Answer(r, 404, NoNote)
            ELSE LET merged == MergeNote(notes[idx], pr.body, t1)
                 IN CallWrite([r EXCEPT !.result = merged],
                              [notes EXCEPT ![idx] = merged], "handler")
       [] pr.op = "delete" -> CallWrite(r, kept, "handler")

\* The route handler from the return of readNotes to its next await or to
\* its response.  t1 is the clock at Date.now() (create) or at the one
\* new Date() (update), t2 and t3 the clock at create's two new Date().
AfterRead(pr, notes, t1, t2, t3) ==
  LET r == [pr EXCEPT !.read = notes, !.ctx = "none"]
      idx == FindIndex(notes, pr.id)
      created == NewNote(pr.body, t1, t2, t3)
      kept == FilterOut(notes, pr.id)
  IN CASE pr.op = "list" -> Answer(r, 200, NoNote)
       [] pr.op = "get" ->
            IF idx = 0 THEN Answer(r, 404, NoNote) ELSE Answer(r, 200, notes[idx])
       [] pr.op = "create" ->
            CallWrite([r EXCEPT !.result = created], Append(notes, created), "handler")
       [] pr.op = "update" ->
            IF idx = 0 THEN Answer(r, 404, NoNote)
            ELSE LET merged == MergeNote(notes[idx], pr.body, t1)
                 IN CallWrite([r EXCEPT !.result = merged],
                              [notes EXCEPT ![idx] = merged], "handler")
       [] pr.op = "delete" ->
            IF Len(notes) = Len(kept) THEN Answer(r, 404, NoNote)
            ELSE CallWrite(r, kept, "handler")

\* WriteStatus ignoring writeSuccess, as in await writeNotes(notes);
\* res.status(201).json(newNote).
WriteStatusUnchecked(op, ok) == IF op = "create" THEN 201 ELSE 200

\* The status a mutating handler answers with once writeNotes has returned.
WriteStatus(op, ok) == IF ~ok THEN 500 ELSE IF op = "create" THEN 201 ELSE 200

\* The clock values <<t2, t3>> a handler can read after t1 = now within one
\* synchronous run: only create reads the clock again.
LaterReads(op) ==
  IF op = "create"
  THEN {<<t2, t3>> \in (now..MaxClock) \X (now..MaxClock) : t2 <= t3}
  ELSE {<<now, now>>}

\* ReadNotesOn returning [] for a missing, blank or non-array file without
\* calling writeNotes([]).
ReadNotesOnNoReset(pr, c, ts) ==
  LET r == [pr EXCEPT !.data = c]
  IN IF c # Absent /\ ~IsBlank(c) /\ ParseThrows(c)
     THEN [r EXCEPT !.pc = "bakRead", !.bakAt = now]
     ELSE IF c = Absent \/ IsBlank(c) \/ ~ParsesToArray(c)
     THEN AfterRead(r, <<>>, now, ts[1], ts[2])
     ELSE AfterRead(r, Parse(c), now, ts[1], ts[2])

\* readNotes from the resolution of fs.readFile with content c.
ReadNotesOn(pr, c, ts) ==
  LET r == [pr EXCEPT !.data = c]
  IN IF c = Absent THEN [r EXCEPT !.pc = "bakRead", !.bakAt = now]
     ELSE IF IsBlank(c) THEN CallWrite(r, <<>>, "heal")
     ELSE IF ParseThrows(c) THEN [r EXCEPT !.pc = "bakRead", !.bakAt = now]
     ELSE IF ~ParsesToArray(c) THEN CallWrite(r, <<>>, "heal")
     ELSE AfterRead(r, Parse(c), now, ts[1], ts[2])

\* Whether readNotes returns to the handler when fs.readFile resolves with c.
ReadsArray(c) == c # Absent /\ ~IsBlank(c) /\ ~ParseThrows(c) /\ ParsesToArray(c)

\* Returned with readNotes throwing after its reset instead of returning
\* []: the handler's catch answers 500.
ReturnedThrowing(pr, ok, ts) ==
  LET r == [pr EXCEPT !.fd = "none"]
  IN IF pr.ctx = "heal" THEN Answer(r, 500, NoNote)
     ELSE IF pr.ctx = "direct"
          THEN [r EXCEPT !.pc = "done", !.ctx = "none",
                         !.wret = IF ok THEN "true" ELSE "false"]
     ELSE Answer([r EXCEPT !.wret = IF ok THEN "true" ELSE "false"],
                 WriteStatus(pr.op, ok),
                 IF WriteStatus(pr.op, ok) # 500 /\ pr.op # "delete"
                 THEN pr.result ELSE NoNote)

\* writeNotes has returned ok to its caller: readNotes ignores the result
\* and returns [], the handler answers, any other caller ("direct") has
\* the value.
Returned(pr, ok, ts) ==
  LET r == [pr EXCEPT !.fd = "none"]
  IN IF pr.ctx = "heal" THEN AfterRead(r, <<>>, now, ts[1], ts[2])
     ELSE IF pr.ctx = "direct"
          THEN [r EXCEPT !.pc = "done", !.ctx = "none",
                         !.wret = IF ok THEN "true" ELSE "false"]
     ELSE Answer([r EXCEPT !.wret = IF ok THEN "true" ELSE "false"],
                 WriteStatus(pr.op, ok),
                 IF WriteStatus(pr.op, ok) # 500 /\ pr.op # "delete"
                 THEN pr.result ELSE NoNote)

\* The other slot's request has its collection and its writeNotes has not
\* returned.
InRace(pr) == pr.ctx = "handler" /\ pr.pc \in {"wOpen", "wWrite", "wRename", "wUnlink"}


\* ---------------------------------------------------------- file system
\* The content of a file after text is written at offset 0 through a
\* descriptor opened before: onto an empty file the text itself; onto
\* bytes another descriptor wrote, the text when it is at least as long as
\* what it covers, and otherwise the text followed by the old tail.  The
\* length of a text is known here only by its number of notes.
Overwrite(old, text) ==
  IF old.kind = "empty" \/ old = text THEN {text}
  ELSE IF old.kind = "array" /\ Len(text.notes) > Len(old.notes) THEN {text}
  ELSE IF old.kind = "array" /\ Len(text.notes) < Len(old.notes) THEN {Mixed}
  ELSE {text, Mixed}

\* The content a failed or interrupted write can leave: nothing written,
\* or a prefix of the text.
Torn(old, text) ==
  IF old.kind = "empty" THEN {old, Partial(text.notes)} ELSE {old, Mixed}

\* Where an open descriptor points once DATA_FILE.tmp has been renamed
\* over DATA_FILE: the temp file's inode is now the notes file, the old
\* notes file has no name.
AfterRename(fd) ==
  IF fd = "tmp" THEN "data" ELSE IF fd = "data" THEN "orphan" ELSE fd

\* Where an open descriptor points once DATA_FILE.tmp has been unlinked.
AfterUnlink(fd) == IF fd = "tmp" THEN "orphan" ELSE fd

\* The clock values read by what runs when writeNotes returns.
ReturnReads(pr) == IF pr.ctx = "heal" THEN LaterReads(pr.op) ELSE {<<now, now>>}

\* ------------------------------------------------------------- actions
\* A request arrives at slot p.  The create handler validates before it
\* reads; every other handler starts with readNotes.
Start(p, r, max) ==
  /\ procs[p].pc = "idle"
  /\ started < max
  /\ LET pr == [Idle EXCEPT !.op = r.op, !.id = r.id, !.body = r.body]
     IN procs' = [procs EXCEPT ![p] =
                    IF r.op = "create" /\ CreateInvalid(r.body)
                    THEN Answer(pr, 400, NoNote)
                    ELSE [pr EXCEPT !.pc = "readFile"]]
  /\ started' = started + 1
  /\ UNCHANGED <<files, backups, now, client>>

\* readNotes: fs.readFile(DATA_FILE) resolves or rejects with ENOENT.
ReadFile(p) ==
  /\ procs[p].pc = "readFile"
  /\ \E ts \in IF ReadsArray(files.data) THEN LaterReads(procs[p].op) ELSE {<<now, now>>} :
       /\ procs' = [procs EXCEPT ![p] = ReadNotesOn(procs[p], files.data, ts)]
       /\ now' = ts[2]
  /\ UNCHANGED <<files, backups, started, client>>

\* readNotes' catch: the second fs.readFile(DATA_FILE), for the backup.
BackupRead(p) ==
  /\ procs[p].pc = "bakRead"
  /\ procs' = [procs EXCEPT ![p] =
                 IF files.data = Absent
                 THEN CallWrite(procs[p], <<>>, "heal")
                 ELSE [procs[p] EXCEPT !.pc = "bakWrite", !.bak = files.data]]
  /\ UNCHANGED <<files, backups, now, started, client>>

\* BackupWrite writing no backup file.
BackupWriteSkipped(p) ==
  /\ procs[p].pc = "bakWrite"
  /\ procs' = [procs EXCEPT ![p] =
                 CallWrite([procs[p] EXCEPT !.bak = Absent], <<>>, "heal")]
  /\ UNCHANGED <<files, backups, now, started, client>>

\* readNotes' catch: fs.writeFile(backupFile, corruptedData), then
\* writeNotes([]) is called.
BackupWrite(p) ==
  /\ procs[p].pc = "bakWrite"
  /\ backups' = [backups EXCEPT ![procs[p].bakAt] = procs[p].bak]
  /\ procs' = [procs EXCEPT ![p] =
                 CallWrite([procs[p] EXCEPT !.bak = Absent], <<>>, "heal")]
  /\ UNCHANGED <<files, now, started, client>>

\* WOpen writing in place: fs.writeFile(DATA_FILE) opens the notes file
\* itself, truncating it.
WOpenInPlace(p) ==
  /\ procs[p].pc = "wOpen"
  /\ files' = [files EXCEPT !.data = EmptyText]
  /\ procs' = [procs EXCEPT ![p].pc = "wWrite", ![p].fd = "data"]
  /\ UNCHANGED <<backups, now, started, client>>

\* writeNotes: fs.writeFile(tempFile) opens DATA_FILE.tmp with flag 'w',
\* creating it or truncating it.
WOpen(p) ==
  /\ procs[p].pc = "wOpen"
  /\ files' = [files EXCEPT !.tmp = EmptyText]
  /\ procs' = [procs EXCEPT ![p].pc = "wWrite", ![p].fd = "tmp"]
  /\ UNCHANGED <<backups, now, started, client>>

\* writeNotes: fs.writeFile writes the text through its descriptor and
\* closes it.
WWrite(p) ==
  /\ procs[p].pc = "wWrite"
  /\ LET tgt == procs[p].fd
         text == Stringify(procs[p].wdata)
     IN IF tgt \in {"tmp", "data"}
        THEN \E c \in Overwrite(files[tgt], text) : files' = [files EXCEPT ![tgt] = c]
        ELSE files' = files
  /\ procs' = [procs EXCEPT ![p].pc = "wRename", ![p].fd = "none"]
  /\ UNCHANGED <<backups, now, started, client>>

\* Where an open descriptor points after a directory operation on
\* DATA_FILE.tmp: "rename", "unlink", or "none" when the operation failed.
MoveFd(ev, fd) ==
  IF ev = "rename" THEN AfterRename(fd)
  ELSE IF ev = "unlink" THEN AfterUnlink(fd)
  ELSE fd

\* procs once slot p's writeNotes has returned ok, its last directory
\* operation being ev.
Complete(p, ok, ts, ev) ==
  [q \in Procs |->
     IF q = p
     THEN Returned([procs[p] EXCEPT
                      !.renamed = ev = "rename" /\ procs[p].ctx # "heal",
                      !.raced = procs[p].ctx = "handler"
                                  /\ \E o \in Procs \ {p} : InRace(procs[o])],
                   ok, ts)
     ELSE [procs[q] EXCEPT !.fd = MoveFd(ev, procs[q].fd)]]

\* writeNotes: fs.rename(tempFile, DATA_FILE).  It rejects with ENOENT
\* when DATA_FILE.tmp has no directory entry, and writeNotes goes to its
\* catch; otherwise the entry replaces the notes file's and writeNotes
\* returns true.
WRename(p) ==
  /\ procs[p].pc = "wRename"
  /\ IF files.tmp = Absent
     THEN /\ procs' = [procs EXCEPT ![p].pc = "wUnlink"]
          /\ UNCHANGED <<files, now>>
     ELSE /\ files' = [data |-> files.tmp, tmp |-> Absent]
          /\ \E ts \in ReturnReads(procs[p]) :
               /\ procs' = Complete(p, TRUE, ts, "rename")
               /\ now' = ts[2]
  /\ UNCHANGED <<backups, started, client>>

\* WUnlink with no cleanup: the catch returns false and leaves the temp
\* file.
WUnlinkSkipped(p) ==
  /\ procs[p].pc = "wUnlink"
  /\ \E ts \in ReturnReads(procs[p]) :
       /\ procs' = Complete(p, FALSE, ts, "none")
       /\ now' = ts[2]
  /\ UNCHANGED <<files, backups, started, client>>

\* writeNotes' catch: fs.unlink(tempFile), its rejection ignored, then
\* return false.
WUnlink(p) ==
  /\ procs[p].pc = "wUnlink"
  /\ files' = [files EXCEPT !.tmp = Absent]
  /\ \E ts \in ReturnReads(procs[p]) :
       /\ procs' = Complete(p, FALSE, ts, "unlink")
       /\ now' = ts[2]
  /\ UNCHANGED <<backups, started, client>>

\* The response has been sent; the slot is free.  raced speaks of the
\* request that leaves.
Finish(p) ==
  /\ procs[p].pc = "done"
  /\ procs' = [q \in Procs |->
                 IF q = p THEN Idle ELSE [procs[q] EXCEPT !.raced = FALSE]]
  /\ UNCHANGED <<files, backups, now, started, client>>

\* A millisecond passes.
Tick ==
  /\ now < MaxClock
  /\ now' = now + 1
  /\ UNCHANGED <<files, backups, procs, started, client>>

\* One step of the request at slot p, every file operation succeeding.
Step(p) ==
  \/ ReadFile(p)
  \/ BackupRead(p)
  \/ BackupWrite(p)
  \/ WOpen(p)
  \/ WWrite(p)
  \/ WRename(p)
  \/ Finish(p)

\* One client, one request at a time, every file operation succeeding.
NextSeq ==
  \/ Tick
  \/ \E r \in Requests : Start(1, r, MaxRequests)
  \/ Step(1)

SpecSeq == Init /\ [][NextSeq]_vars


\* ------------------------------------------------- failing file operations
\* readNotes: fs.readFile(DATA_FILE) rejects with an I/O error.
ReadFileFail(p) ==
  /\ procs[p].pc = "readFile"
  /\ procs' = [procs EXCEPT ![p].pc = "bakRead", ![p].bakAt = now]
  /\ UNCHANGED <<files, backups, now, started, client>>

\* readNotes' catch: the backup's fs.readFile rejects; the inner catch
\* logs it and writeNotes([]) is called.
BackupReadFail(p) ==
  /\ procs[p].pc = "bakRead"
  /\ procs' = [procs EXCEPT ![p] = CallWrite(procs[p], <<>>, "heal")]
  /\ UNCHANGED <<files, backups, now, started, client>>

\* readNotes' catch: the backup's fs.writeFile rejects, before or after it
\* created the file.
BackupWriteFail(p) ==
  /\ procs[p].pc = "bakWrite"
  /\ backups' \in {backups, [backups EXCEPT ![procs[p].bakAt] = EmptyText]}
  /\ procs' = [procs EXCEPT ![p] =
                 CallWrite([procs[p] EXCEPT !.bak = Absent], <<>>, "heal")]
  /\ UNCHANGED <<files, now, started, client>>

\* writeNotes: fs.writeFile(tempFile) rejects at open.
WOpenFail(p) ==
  /\ procs[p].pc = "wOpen"
  /\ procs' = [procs EXCEPT ![p].pc = "wUnlink"]
  /\ UNCHANGED <<files, backups, now, started, client>>

\* writeNotes: fs.writeFile(tempFile) rejects at its write.
WWriteFail(p) ==
  /\ procs[p].pc = "wWrite"
  /\ LET tgt == procs[p].fd
         text == Stringify(procs[p].wdata)
     IN IF tgt \in {"tmp", "data"}
        THEN \E c \in Torn(files[tgt], text) : files' = [files EXCEPT ![tgt] = c]
        ELSE files' = files
  /\ procs' = [procs EXCEPT ![p].pc = "wUnlink", ![p].fd = "none"]
  /\ UNCHANGED <<backups, now, started, client>>

\* WRenameFail with writeNotes writing the temp file again when its rename
\* is rejected.
WRenameFailRetry(p) ==
  /\ procs[p].pc = "wRename"
  /\ files.tmp # Absent
  /\ procs' = [procs EXCEPT ![p].pc = "wOpen"]
  /\ UNCHANGED <<files, backups, now, started, client>>

\* writeNotes: fs.rename rejects although DATA_FILE.tmp exists.
WRenameFail(p) ==
  /\ procs[p].pc = "wRename"
  /\ files.tmp # Absent
  /\ procs' = [procs EXCEPT ![p].pc = "wUnlink"]
  /\ UNCHANGED <<files, backups, now, started, client>>

\* writeNotes' catch: fs.unlink rejects, which .catch(() => {}) ignores.
WUnlinkFail(p) ==
  /\ procs[p].pc = "wUnlink"
  /\ \E ts \in ReturnReads(procs[p]) :
       /\ procs' = Complete(p, FALSE, ts, "none")
       /\ now' = ts[2]
  /\ UNCHANGED <<files, backups, started, client>>

\* A file operation of readNotes fails.
ReadFault(p) ==
  \/ ReadFileFail(p)
  \/ BackupReadFail(p)
  \/ BackupWriteFail(p)

\* A file operation of writeNotes fails.
WriteFault(p) ==
  \/ WOpenFail(p)
  \/ WWriteFail(p)
  \/ WRenameFail(p)
  \/ WUnlinkFail(p)

\* Two request slots, the handlers interleaving at their awaits, any file
\* operation of writeNotes failing.
Next ==
  \/ Tick
  \/ \E p \in Procs :
       \/ \E r \in FewRequests : Start(p, r, MaxRaceRequests)
       \/ Step(p)
       \/ WUnlink(p)
       \/ WriteFault(p)

Spec == InitRace /\ [][Next]_vars


\* ------------------------------------------------------------------ crash
\* A writeNotes call is in progress in the request.
InWriteNotes(pr) == pr.pc \in {"wOpen", "wWrite", "wRename", "wUnlink"}

\* What a file holds after the process dies: as it is, or torn by a
\* fs.writeFile that was writing through a descriptor on it.
CrashContents(path) ==
  LET writers == {p \in Procs : procs[p].pc = "wWrite" /\ procs[p].fd = path}
  IN {files[path]}
       \cup UNION {Torn(files[path], Stringify(procs[p].wdata)) : p \in writers}

\* The server process dies with requests in flight and is started again:
\* every handler is gone, and ensureDataDir writes "[]" if the notes file
\* is missing.
Crash ==
  /\ \E p \in Procs : procs[p].pc # "idle"
  /\ \E d \in CrashContents("data"), t \in CrashContents("tmp") :
       files' = [data |-> IF d = Absent THEN Stringify(<<>>) ELSE d, tmp |-> t]
  /\ procs' = [p \in Procs |-> Idle]
  /\ UNCHANGED <<backups, now, started, client>>

\* One client, one request at a time, every file operation succeeding,
\* the server process dying at any await.
NextCrash ==
  \/ Tick
  \/ \E r \in FewRequests : Start(1, r, MaxRequests)
  \/ Step(1)
  \/ Crash

SpecCrash == InitOf(InitContents \cup RaceContents) /\ [][NextCrash]_vars

\* ------------------------------------------------------------------ C1
\* C1: while a writeNotes call is in progress, with the process allowed to
\* die at any of its steps, every step leaves the notes file holding what
\* it held before or the complete text of the collection being written.
C1_AtomicReplace ==
  [][\A p \in Procs :
       InWriteNotes(procs[p])
         => files'.data \in {files.data, Stringify(procs[p].wdata)}]_vars

\* The process died during the temp file's write: the temp file is torn,
\* the notes file still holds a collection.
C1_Witness ==
  /\ files.tmp.kind = "partial"
  /\ files.tmp.notes # <<>>
  /\ files.data.kind = "array"
  /\ procs[1].pc = "idle"


\* ------------------------------------------------------------------ C2
\* The notes of a file's text, or none when the text is no array.
Stored(c) == IF ParsesToArray(c) THEN Parse(c) ELSE <<>>

\* C2: no two notes of the persisted collection have the same id.
C2_UniqueIds ==
  \A i, j \in 1..Len(Stored(files.data)) :
    i # j => Stored(files.data)[i].id # Stored(files.data)[j].id

\* ------------------------------------------------------------------ C3
\* The request at slot p has been answered with success by op.
Succeeded(p, op) ==
  procs[p].pc = "done" /\ procs[p].op = op /\ procs[p].status \in {200, 201}

\* C3: after a successful update, each of the six keys present in the
\* patch has the patch value in the returned note and each absent key the
\* stored value; the persisted collection is the one read with the
\* returned note at the updated note's place and every other note as it
\* was; and updatedAt is the clock at the moment the handler merges.
C3_UpdateMerge ==
  /\ [](\A p \in Procs :
          Succeeded(p, "update") =>
            LET pr == procs[p]
                idx == FindIndex(pr.read, pr.id)
            IN /\ idx > 0
               /\ \A k \in BodyKeys :
                    pr.result[k] = IF pr.body[k] # Undefined
                                   THEN pr.body[k] ELSE pr.read[idx][k]
               /\ files.data = Stringify(pr.wdata)
               /\ Len(pr.wdata) = Len(pr.read)
               /\ \A i \in 1..Len(pr.read) :
                    pr.wdata[i] = IF i = idx THEN pr.result ELSE pr.read[i])
  /\ [][\A p \in Procs :
          (/\ procs[p].op = "update"
           /\ procs[p].pc = "readFile"
           /\ procs'[p].pc = "wOpen"
           /\ procs'[p].ctx = "handler")
            => procs'[p].result.updatedAt = now']_vars

\* A successful update of the second of two notes by a patch with a key
\* present and keys absent.
C3_Witness ==
  /\ Succeeded(1, "update")
  /\ Len(procs[1].read) = 2
  /\ FindIndex(procs[1].read, procs[1].id) = 2
  /\ procs[1].body = [NoBody EXCEPT !.completed = JsFalse]


\* ------------------------------------------------------------------ C4
\* Two request slots, the handlers interleaving at their awaits, every
\* file operation succeeding unless the interleaving itself makes it fail.
NextRace ==
  \/ Tick
  \/ \E p \in Procs :
       \/ \E r \in FewRequests : Start(p, r, MaxRaceRequests)
       \/ Step(p)
       \/ WUnlink(p)

SpecRace == InitRace /\ [][NextRace]_vars

\* C4: when the writeNotes of the request at p returned while the request
\* at q had read and not yet written, and q's writeNotes has returned
\* since, the notes file holds the collection q computed and both
\* requests were answered with success.
C4_SecondWriterWins ==
  \A p, q \in Procs :
    (/\ p # q
     /\ procs[p].pc = "done"
     /\ procs[q].pc = "done"
     /\ procs[p].raced
     /\ procs[q].wret # "none")
      => /\ files.data = Stringify(procs[q].wdata)
         /\ procs[p].status \in {200, 201}
         /\ procs[q].status \in {200, 201}

\* ------------------------------------------------------------------ C5
\* C5: at every instant the notes file holds the complete text of one
\* collection.
C5_NeverPartial == files.data.kind = "array"


\* ------------------------------------------------------------------ C6
\* C6: a create, update or delete that was not answered 400 or 404 is
\* answered only once its own writeNotes call has returned; with 201/200
\* only if that call completed its rename and returned true, and with 500
\* whenever it returned false.
C6_SuccessAfterRename ==
  \A p \in Procs :
    (/\ procs[p].pc = "done"
     /\ procs[p].op \in {"create", "update", "delete"}
     /\ procs[p].status \notin {400, 404})
      => /\ procs[p].wret # "none"
         /\ procs[p].status \in {200, 201}
              => procs[p].renamed /\ procs[p].wret = "true"
         /\ procs[p].wret = "false" => procs[p].status = 500

\* One request answered 500 after its writeNotes returned false, the
\* other answered 201 after its rename.
C6_Witness ==
  /\ procs[1].pc = "done" /\ procs[1].status = 500 /\ procs[1].wret = "false"
  /\ procs[2].pc = "done" /\ procs[2].status = 201 /\ procs[2].renamed


\* -------------------------------------------------- plain server (server.js)
\* The status the plain handlers answer with after await writeNotes(...):
\* the value writeNotes returned is not looked at.
PlainStatus(op) == IF op = "create" THEN 201 ELSE 200

\* Plain readNotes and the handler after it: any rejection or parse error
\* gives [], and a text that parses is returned whatever it is; on a value
\* that is no array, list answers it and every other handler throws at
\* notes.find / push / findIndex / filter and answers 500 from its catch.
PlainReadNotesOn(pr, c, ts) ==
  LET r == [pr EXCEPT !.data = c]
  IN IF c = Absent \/ ParseThrows(c) THEN AfterRead(r, <<>>, now, ts[1], ts[2])
     ELSE IF ~ParsesToArray(c)
          THEN Answer(r, IF pr.op = "list" THEN 200 ELSE 500, NoNote)
     ELSE AfterRead(r, Parse(c), now, ts[1], ts[2])

\* Plain writeNotes has returned ok: the handler answers.
PlainReturned(pr, ok) ==
  Answer([pr EXCEPT !.wret = IF ok THEN "true" ELSE "false"],
         PlainStatus(pr.op),
         IF pr.op # "delete" THEN pr.result ELSE NoNote)

\* Plain readNotes: fs.readFile(DATA_FILE) resolves or rejects with ENOENT.
PlainReadFile(p) ==
  /\ procs[p].pc = "readFile"
  /\ \E ts \in IF files.data.kind = "nonarray" THEN {<<now, now>>}
               ELSE LaterReads(procs[p].op) :
       /\ procs' = [procs EXCEPT ![p] = PlainReadNotesOn(procs[p], files.data, ts)]
       /\ now' = ts[2]
  /\ UNCHANGED <<files, backups, started, client>>

\* Plain readNotes: fs.readFile rejects with an I/O error.
PlainReadFileFail(p) ==
  /\ procs[p].pc = "readFile"
  /\ \E ts \in LaterReads(procs[p].op) :
       /\ procs' = [procs EXCEPT ![p] = AfterRead(procs[p], <<>>, now, ts[1], ts[2])]
       /\ now' = ts[2]
  /\ UNCHANGED <<files, backups, started, client>>

\* Plain writeNotes: fs.writeFile(DATA_FILE) opens the notes file with
\* flag 'w', truncating it.
PlainOpen(p) ==
  /\ procs[p].pc = "wOpen"
  /\ files' = [files EXCEPT !.data = EmptyText]
  /\ procs' = [procs EXCEPT ![p].pc = "wWrite", ![p].fd = "data"]
  /\ UNCHANGED <<backups, now, started, client>>

\* Plain writeNotes: fs.writeFile rejects at open; writeNotes returns false.
PlainOpenFail(p) ==
  /\ procs[p].pc = "wOpen"
  /\ procs' = [procs EXCEPT ![p] = PlainReturned(procs[p], FALSE)]
  /\ UNCHANGED <<files, backups, now, started, client>>

\* Plain writeNotes: fs.writeFile writes the text; writeNotes returns true.
PlainWrite(p) ==
  /\ procs[p].pc = "wWrite"
  /\ \E c \in Overwrite(files.data, Stringify(procs[p].wdata)) :
       files' = [files EXCEPT !.data = c]
  /\ procs' = [procs EXCEPT ![p] = PlainReturned(procs[p], TRUE)]
  /\ UNCHANGED <<backups, now, started, client>>

\* Plain writeNotes: fs.writeFile rejects at its write; writeNotes returns
\* false.
PlainWriteFail(p) ==
  /\ procs[p].pc = "wWrite"
  /\ \E c \in Torn(files.data, Stringify(procs[p].wdata)) :
       files' = [files EXCEPT !.data = c]
  /\ procs' = [procs EXCEPT ![p] = PlainReturned(procs[p], FALSE)]
  /\ UNCHANGED <<backups, now, started, client>>

\* The plain server: one client, one request at a time, any file
\* operation failing.
NextPlain ==
  \/ Tick
  \/ \E r \in FewRequests : Start(1, r, MaxRequests)
  \/ PlainReadFile(1)
  \/ PlainReadFileFail(1)
  \/ PlainOpen(1)
  \/ PlainOpenFail(1)
  \/ PlainWrite(1)
  \/ PlainWriteFail(1)
  \/ Finish(1)

SpecPlain == InitOf(InitContents \cup RaceContents) /\ [][NextPlain]_vars

\* ------------------------------------------------------------------ C7
\* C7: in the plain server, a create, update or delete whose writeNotes
\* returned false is answered with status 500.
C7_PlainFailureReported ==
  \A p \in Procs :
    (procs[p].pc = "done" /\ procs[p].wret = "false") => procs[p].status = 500


\* ------------------------------------------------------------------ C8
\* The text is not blank and JSON.parse throws on it.
Unparsable(c) == c # Absent /\ ~IsBlank(c) /\ ParseThrows(c)

\* readNotes has returned to the handler of the request.
ReadNotesReturned(pr) ==
  \/ pr.pc = "done" /\ pr.status # 400
  \/ InWriteNotes(pr) /\ pr.ctx = "handler"

\* C8: once readNotes has returned for a request that found unparsable
\* text in the notes file, it returned the empty collection, the backup
\* file holds that text, and the notes file holds the empty array until the
\* handler itself replaces it; and once a backup exists, a readNotes that
\* finds the empty array returns empty at once, entering neither the
\* backup nor the reset and leaving every file as it is.
C8_SelfHeal ==
  /\ [](\A p \in Procs :
          (ReadNotesReturned(procs[p]) /\ Unparsable(procs[p].data))
            => /\ procs[p].read = <<>>
               /\ backups[procs[p].bakAt] = procs[p].data
               /\ ~procs[p].renamed => files.data = Stringify(<<>>))
  /\ [][\A p \in Procs :
          (/\ procs[p].pc = "readFile"
           /\ procs'[p] # procs[p]
           /\ files.data = Stringify(<<>>)
           /\ \E t \in DOMAIN backups : Unparsable(backups[t]))
            => /\ ReadNotesReturned(procs'[p])
               /\ procs'[p].read = <<>>
               /\ backups' = backups
               /\ files' = files]_vars

\* A request found unparsable text and was answered; the next request has
\* read the store since.
C8_Witness ==
  /\ procs[1].pc = "done"
  /\ procs[1].op = "get"
  /\ procs[1].data = Stringify(<<>>)
  /\ \E t \in DOMAIN backups : backups[t] = Garbage

\* ------------------------------------------------------------------ C9
\* C9: after a successful delete the persisted collection is one shorter
\* than the collection the delete read, and holds no note with the id, so
\* that a get of the id answers 404.
C9_DeleteOne ==
  \A p \in Procs :
    Succeeded(p, "delete")
      => /\ Len(Stored(files.data)) = Len(procs[p].read) - 1
         /\ FindIndex(Stored(files.data), procs[p].id) = 0

\* ----------------------------------------------------------------- C10
\* C10: when an update or a delete reads a well-formed collection with no
\* note of its id, its next step answers 404 and leaves every file as it
\* is: no writeNotes call is made.
C10_NotFoundNoWrite ==
  [][\A p \in Procs :
       (/\ procs[p].op \in {"update", "delete"}
        /\ procs[p].pc = "readFile"
        /\ procs'[p] # procs[p]
        /\ ParsesToArray(files.data)
        /\ FindIndex(Parse(files.data), procs[p].id) = 0)
         => /\ procs'[p].pc = "done"
            /\ procs'[p].status = 404
            /\ files' = files]_vars

\* A delete of an id no note has, on a store holding notes, was answered
\* 404.
C10_Witness ==
  /\ procs[1].pc = "done"
  /\ procs[1].op = "delete"
  /\ procs[1].status = 404
  /\ procs[1].read # <<>>
  /\ files.data = Stringify(procs[1].read)

\* ----------------------------------------------------------------- C11
\* C11: a create whose title or content is missing or empty is answered
\* 400 by the step that accepts it, which leaves the notes file, the temp
\* file and the backups as they are; the request has then neither called
\* readNotes nor writeNotes, and it stays answered 400.
C11_InvalidCreate ==
  /\ [][\A p \in Procs :
          (/\ procs[p].pc = "idle"
           /\ procs'[p].op = "create"
           /\ \/ procs'[p].body.title \in {Undefined, ""}
              \/ procs'[p].body.content \in {Undefined, ""})
            => /\ procs'[p].pc = "done"
               /\ procs'[p].status = 400
               /\ files' = files
               /\ backups' = backups]_vars
  /\ [](\A p \in Procs :
          procs[p].status = 400
            => /\ procs[p].pc = "done"
               /\ procs[p].data = Absent
               /\ procs[p].read = <<>>
               /\ procs[p].wret = "none"
               /\ procs[p].result = NoNote)

\* A create with a title and no content was answered 400 on a store that
\* holds a note.
C11_Witness ==
  /\ procs[1].pc = "done"
  /\ procs[1].op = "create"
  /\ procs[1].status = 400
  /\ procs[1].body.title = "T"
  /\ procs[1].body.content = Undefined
  /\ Len(Stored(files.data)) = 1

\* ------------------------------------------------ writeNotes called directly
\* A second stored note, created a millisecond before Seed.
Seed2 == NewNote([NoBody EXCEPT !.title = "T2", !.content = "C2"], -1, -1, -1)

\* A value passed to writeNotes: an array of notes, a value that is no
\* array ("object"), an array JSON.stringify throws on ("cyclic").
Arg(kind, notes) == [kind |-> kind, notes |-> notes]

WriteArgs ==
  {Arg("array", <<>>), Arg("array", <<Seed>>), Arg("array", <<Seed2, Seed>>),
   Arg("object", <<>>), Arg("cyclic", <<>>)}

\* writeNotes(a) is called by a caller that keeps the value it returns.
\* On a value that is no array the function throws inside its own try, on
\* a cyclic one JSON.stringify does: either way it is in its catch, at
\* fs.unlink(tempFile), before any file was touched.
CallWriteNotes(p, a) ==
  /\ procs[p].pc = "idle"
  /\ started < MaxRequests
  /\ LET pr == [Idle EXCEPT !.op = "writeNotes", !.arg = a.kind, !.ctx = "direct"]
     IN procs' = [procs EXCEPT ![p] =
                    IF a.kind = "array" THEN CallWrite(pr, a.notes, "direct")
                    ELSE [pr EXCEPT !.pc = "wUnlink"]]
  /\ started' = started + 1
  /\ UNCHANGED <<files, backups, now, client>>

\* The store at the start of such a run: any notes file, and possibly a
\* temp file a run that died has left.
InitStore ==
  /\ client = ClientInit
  /\ files \in [data : InitContents \cup RaceContents,
                 tmp : {Absent, Partial(<<Seed>>)}]
  /\ backups = [t \in 1..MaxClock |-> Absent]
  /\ now = 1
  /\ procs = [p \in Procs |-> Idle]
  /\ started = 0

\* One caller, one writeNotes call at a time, the write or the rename of
\* the temp file failing.
NextStore ==
  \/ \E a \in WriteArgs : CallWriteNotes(1, a)
  \/ WOpen(1)
  \/ WWrite(1)
  \/ WRename(1)
  \/ WUnlink(1)
  \/ WOpenFail(1)
  \/ WWriteFail(1)
  \/ WRenameFail(1)
  \/ Finish(1)

SpecStore == InitStore /\ [][NextStore]_vars

C14_HealMalformed ==
  /\ [](\A p \in Procs :
          (/\ ReadNotesReturned(procs[p])
           /\ procs[p].data \in {Absent, EmptyText, NonArray})
            => /\ procs[p].read = <<>>
               /\ ~procs[p].renamed => files.data = Stringify(<<>>))
  /\ [][\A p \in Procs :
          (/\ procs[p].pc = "readFile"
           /\ procs'[p] # procs[p]
           /\ files.data = Stringify(<<>>))
            => /\ ReadNotesReturned(procs'[p])
               /\ procs'[p].read = <<>>
               /\ files' = files
               /\ backups' = backups]_vars

\* A get found no notes file and was answered 404 from the empty
\* collection, the notes file now holding the empty array.
C14_Witness ==
  /\ procs[1].pc = "done"
  /\ procs[1].op = "get"
  /\ procs[1].data = Absent
  /\ procs[1].status = 404
  /\ files.data = Stringify(<<>>)

\* ----------------------------------------------------------------- C15
\* C15: after a successful update, whatever keys the patch carries, the
\* returned note has the id, the createdAt and exactly the fields of the
\* stored note it replaces, and every note of the persisted collection has
\* the id and the createdAt of the note that was at its position.
C15_IdCreatedAtKept ==
  \A p \in Procs :
    Succeeded(p, "update") =>
      LET pr == procs[p]
          idx == FindIndex(pr.read, pr.id)
      IN /\ pr.result.id = pr.read[idx].id
         /\ pr.result.createdAt = pr.read[idx].createdAt
         /\ DOMAIN pr.result = DOMAIN pr.read[idx]
         /\ Stored(files.data)[idx] = pr.result
         /\ Len(Stored(files.data)) = Len(pr.read)
         /\ \A i \in 1..Len(pr.read) :
              /\ Stored(files.data)[i].id = pr.read[i].id
              /\ Stored(files.data)[i].createdAt = pr.read[i].createdAt

\* A successful update by a patch that carries id, createdAt, updatedAt and
\* an unknown key, of a note created before the clock last advanced.
C15_Witness ==
  /\ Succeeded(1, "update")
  /\ procs[1].body = ExtraPatch
  /\ procs[1].result.id # procs[1].body.id
  /\ procs[1].result.createdAt < procs[1].result.updatedAt

\* ----------------------------------------------------------------- C16
\* C16: with a clock that never goes back, every note of the persisted
\* collection has updatedAt at or after createdAt.
C16_UpdatedNotBeforeCreated ==
  \A i \in 1..Len(Stored(files.data)) :
    Stored(files.data)[i].updatedAt >= Stored(files.data)[i].createdAt

\* The persisted collection after a successful update holds a note
\* updated after it was created and a note never updated.
C16_Witness ==
  /\ Succeeded(1, "update")
  /\ \E i, j \in 1..Len(Stored(files.data)) :
       /\ Stored(files.data)[i].updatedAt > Stored(files.data)[i].createdAt
       /\ Stored(files.data)[j].updatedAt = Stored(files.data)[j].createdAt

\* ----------------------------------------------------------------- C17
\* C17: the note a successful create returns and persists has createdAt
\* equal to updatedAt.
C17_CreatedEqualsUpdated ==
  \A p \in Procs :
    Succeeded(p, "create")
      => /\ procs[p].result.createdAt = procs[p].result.updatedAt
         /\ \E i \in 1..Len(Stored(files.data)) :
              Stored(files.data)[i] = procs[p].result

\* ----------------------------------------------------------------- C18
\* C18: the note a successful create returns has the category, the
\* isReminder and the reminderDate of the request body where the body
\* carries them and "Personal", false and null where it does not, and
\* completed false whatever the body carries; and the persisted
\* collection is the collection read with that note appended.
C18_CreateDefaults ==
  \A p \in Procs :
    Succeeded(p, "create") =>
      LET b == procs[p].body
          n == procs[p].result
      IN /\ n.category = IF b.category # Undefined THEN b.category ELSE "Personal"
         /\ n.isReminder = IF b.isReminder # Undefined THEN b.isReminder ELSE JsFalse
         /\ n.reminderDate = IF b.reminderDate # Undefined THEN b.reminderDate ELSE Null
         /\ n.completed = JsFalse
         /\ files.data = Stringify(Append(procs[p].read, n))

\* ------------------------------------------------------ the page (app.js)
\* The filter keeping a category whatever its letter case.
KeepCategoryAnyCase(note, f) ==
  LET Lower(c) == IF c = "Work" THEN "work" ELSE c
  IN Lower(note.category) = Lower(f)

\* note => note.category === currentFilter
KeepCategory(note, f) == note.category = f

\* renderNotes: filteredNotes, the notes a card is made for, in order.
FilteredNotes(notes, f) ==
  LET F[i \in 0..Len(notes)] ==
        IF i = 0 THEN <<>>
        ELSE IF KeepCategory(notes[i], f) THEN Append(F[i - 1], notes[i])
        ELSE F[i - 1]
  IN IF f = "all" THEN notes ELSE F[Len(notes)]

\* The values of the category select: 'all' and categories.
Filters == {"all", "Work", "work", "Personal", ""}

\* Notes of the categories "Work" and "work", stored by an earlier run.
SeedWork ==
  NewNote([NoBody EXCEPT !.title = "T", !.content = "C", !.category = "Work"],
          -2, -2, -2)

SeedLower ==
  NewNote([NoBody EXCEPT !.title = "T", !.content = "C", !.category = "work"],
          -1, -1, -1)

\* The stores the runs with the page start from.
ClientContents == {Stringify(<<SeedWork, SeedLower, Seed>>), Garbage}

\* loadNotes: fetch('/api/notes') is sent.
LoadNotes(p) == Start(p, Request("list", "", NoBody), MaxRequests)

\* loadNotes after its awaits: the response is there; if it is ok, notes
\* becomes its body and renderNotes runs.
NotesLoaded(p) ==
  /\ procs[p].pc = "done"
  /\ procs[p].op = "list"
  /\ client' = IF procs[p].status = 200
                THEN [client EXCEPT
                        !.notes = procs[p].read,
                        !.shown = FilteredNotes(procs[p].read, client.filter),
                        !.loaded = TRUE]
                ELSE [client EXCEPT !.loaded = TRUE]
  /\ procs' = [procs EXCEPT ![p] = Idle]
  /\ UNCHANGED <<files, backups, now, started>>

\* The category select changes to f: currentFilter = f, renderNotes().
SetFilter(f) ==
  /\ f # client.filter
  /\ client' = [client EXCEPT !.filter = f,
                              !.shown = FilteredNotes(client.notes, f)]
  /\ UNCHANGED <<files, backups, now, procs, started>>

\* The page loading and filtering while other clients' requests change
\* the store, one request at a time, every file operation succeeding.
NextClient ==
  \/ Tick
  \/ LoadNotes(1)
  \/ NotesLoaded(1)
  \/ \E f \in Filters : SetFilter(f)
  \/ \E r \in FewRequests : Start(1, r, MaxRequests)
  \/ /\ procs[1].op # "list"
     /\ Finish(1)
  \/ ReadFile(1)
  \/ BackupRead(1)
  \/ BackupWrite(1)
  \/ WOpen(1)
  \/ WWrite(1)
  \/ WRename(1)

SpecClient == InitOf(ClientContents) /\ [][NextClient]_vars

\* ----------------------------------------------------------------- C19
\* C19: the notes the page shows are, with the filter 'all', all the notes
\* it holds, and with any other filter value exactly the notes it holds
\* whose category is that value, letter for letter, in the order it holds
\* them; and the notes it holds after loadNotes are the persisted
\* collection the list request read.
C19_CategoryFilter ==
  /\ [](LET Match(n) == n.category = client.filter
        IN client.shown = IF client.filter = "all" THEN client.notes
                          ELSE SelectSeq(client.notes, Match))
  /\ [][(procs[1].pc = "done" /\ procs[1].op = "list" /\ procs'[1].pc = "idle")
          => client'.notes = Stored(files.data)]_vars

\* Of three notes loaded, one has the category "Work": with the filter
\* "Work" the page shows exactly that note.
C19_Witness ==
  /\ client.filter = "Work"
  /\ client.notes = <<SeedWork, SeedLower, Seed>>
  /\ client.shown = <<SeedWork>>

\* ----------------------------------------------------------------- C20
\* C20: a writeNotes call with a value that is no array ends with an
\* outcome that is neither the true of a completed write nor the false a
\* failed file operation gives, and no step of the call changes the notes
\* file or the temp file.
C20_NonArrayRejected ==
  /\ [](\A p \in Procs :
          (procs[p].pc = "done" /\ procs[p].arg = "object")
            => procs[p].wret \notin {"true", "false"})
  /\ [][\A p \in Procs :
          (procs[p].arg = "object" /\ InWriteNotes(procs[p]))
            => files' = files]_vars

\* ----------------------------------------------------------------- C21
\* C21: a request whose readNotes found unparsable text in the notes file
\* is answered as on an empty store: a create with 201 and its note, the
\* persisted collection then holding exactly that note; an update, a
\* delete and a get with 404; a list with 200 and no note.
C21_CorruptionAsEmpty ==
  \A p \in Procs :
    (procs[p].pc = "done" /\ procs[p].status # 400 /\ Unparsable(procs[p].data))
      => /\ procs[p].read = <<>>
         /\ procs[p].op = "create"
              => /\ procs[p].status = 201
                 /\ procs[p].result = procs[p].wdata[1]
                 /\ files.data = Stringify(<<procs[p].result>>)
         /\ procs[p].op \in {"update", "delete", "get"} => procs[p].status = 404
         /\ procs[p].op = "list" => procs[p].status = 200

\* A create that found unparsable text was answered 201, and the notes
\* file holds its note alone.
C21_Witness ==
  /\ procs[1].pc = "done"
  /\ procs[1].op = "create"
  /\ procs[1].data = Garbage
  /\ procs[1].status = 201
  /\ Len(Stored(files.data)) = 1

\* ------------------------------------------- one client, failing file I/O
\* The requests of the runs in which any file operation may fail.
FaultRequests ==
  FewRequests \cup {Request("list", "", NoBody), Request("get", IdOf(0), NoBody)}

\* The steps of the request at slot p: each file operation it awaits
\* resolves or rejects.
Settle(p) == Step(p) \/ WUnlink(p) \/ ReadFault(p) \/ WriteFault(p)

\* One client, one request at a time, any file operation of readNotes and
\* of writeNotes failing.
NextFault ==
  \/ Tick
  \/ \E r \in FaultRequests : Start(1, r, MaxFaultRequests)
  \/ Settle(1)

SpecFault == InitOf(InitContents \cup RaceContents) /\ [][NextFault]_vars

\* Every file operation a handler awaits settles: the promise resolves or
\* rejects.
SpecFaultFair == SpecFault /\ WF_vars(Settle(1))

\* ----------------------------------------------------------------- C22
\* How many awaits a request can still have before it: readNotes' read,
\* its backup, its reset (a writeNotes call), the handler's writeNotes
\* call, the response.
Rank(pr) ==
  LET base == IF pr.ctx = "heal" THEN 4 ELSE 0
  IN CASE pr.pc = "idle" -> 0
       [] pr.pc = "done" -> 1
       [] pr.pc = "wUnlink" -> base + 2
       [] pr.pc = "wRename" -> base + 3
       [] pr.pc = "wWrite" -> base + 4
       [] pr.pc = "wOpen" -> base + 5
       [] pr.pc = "bakWrite" -> 10
       [] pr.pc = "bakRead" -> 11
       [] pr.pc = "readFile" -> 12

\* C22: with any file operation of readNotes and writeNotes failing,
\* every step of a request takes it strictly nearer its response, so no
\* operation is done again after it failed; an answered request only
\* leaves; its answer is one of 200, 201, 400, 404, 500; and, every awaited
\* operation settling, every request accepted is answered.
C22_Terminates ==
  /\ [][\A p \in Procs :
          (procs[p].pc # "idle" /\ procs'[p] # procs[p])
            => Rank(procs'[p]) < Rank(procs[p])]_vars
  /\ [][\A p \in Procs :
          procs[p].pc = "done" => procs'[p] \in {procs[p], Idle}]_vars
  /\ [](\A p \in Procs :
          procs[p].pc = "done" => procs[p].status \in {200, 201, 400, 404, 500})
  /\ \A p \in Procs : (procs[p].pc # "idle") ~> (procs[p].pc = "done")

\* A create that found unparsable text and whose own writeNotes returned
\* false was answered 500, a temp file being left behind.
C22_Witness ==
  /\ procs[1].pc = "done"
  /\ procs[1].op = "create"
  /\ procs[1].data = Garbage
  /\ procs[1].status = 500
  /\ files.tmp # Absent

\* ----------------------------------------------------------------- C23
\* C23: when readNotes starts its reset, the writeNotes([]) call, on a
\* notes file that holds unparsable text, a backup file holds that text.
C23_BackupBeforeReset ==
  [][\A p \in Procs :
       (/\ procs[p].pc # "wOpen"
        /\ procs'[p].pc = "wOpen"
        /\ procs'[p].ctx = "heal"
        /\ Unparsable(files.data))
         => \E t \in DOMAIN backups : backups'[t] = files.data]_vars

\* ----------------------------------------------------------------- C24
\* A readNotes call is in progress in the request.
InReadNotes(pr) == pr.pc \in {"readFile", "bakRead", "bakWrite"} \/ pr.ctx = "heal"

\* C24: no step of a readNotes call changes a notes file that holds the
\* text of an array, whether its fs.readFile resolved or rejected.
C24_ReadLeavesArray ==
  [][\A p \in Procs :
       (InReadNotes(procs[p]) /\ ParsesToArray(files.data))
         => files'.data = files.data]_vars

\* ----------------------------------------------------------------- C25
\* C25: every note of the persisted collection has a title and a content
\* that are not empty.
C25_TitleContentNonEmpty ==
  \A i \in 1..Len(Stored(files.data)) :
    /\ ~Falsy(Stored(files.data)[i].title)
    /\ ~Falsy(Stored(files.data)[i].content)

\* ------------------------------------------ the page's reminders (app.js)
\* new Date(t).toISOString(): the text of the instant t.
Iso(t) == "D" \o ToString(t)

\* The instants the page's date input sets a reminder for: up to the end
\* of the run and later.
Instants == 0..(MaxClock + 2)

\* new Date(d) is a date: d is the text of an instant (new Date of any
\* other value the model has is Invalid Date).
IsDate(d) == \E t \in Instants : Iso(t) = d

\* new Date(d), in clock units.
TimeOf(d) == CHOOSE t \in Instants : Iso(t) = d

\* The 300000 ms of checkReminders, on the scale of the model's clock: one
\* step of the clock of the runs with the page.
ReminderWindow == 1

\* `${note.id}-${note.reminderDate}`
ReminderKey(note) == note.id \o "-" \o note.reminderDate

\* Due without the test of timeDiff.
DueAnyTime(note, t) ==
  /\ ~Falsy(note.isReminder)
  /\ ~Falsy(note.reminderDate)
  /\ Falsy(note.completed)
  /\ IsDate(note.reminderDate)

\* checkReminders' conditions on a note at the clock t: note.isReminder &&
\* note.reminderDate && !note.completed, and timeDiff <= 300000, which is
\* false when reminderTime is Invalid Date (timeDiff is NaN).
Due(note, t) ==
  /\ ~Falsy(note.isReminder)
  /\ ~Falsy(note.reminderDate)
  /\ Falsy(note.completed)
  /\ IsDate(note.reminderDate)
  /\ TimeOf(note.reminderDate) - t <= ReminderWindow

\* notes.forEach of checkReminders at the clock t, from the page state c:
\* what shownReminders and the notifications shown are after it.
Reminded(notes, t, c) ==
  LET R[i \in 0..Len(notes)] ==
        IF i = 0
        THEN [shownReminders |-> c.shownReminders, alerts |-> c.alerts]
        ELSE IF /\ Due(notes[i], t)
                /\ ReminderKey(notes[i]) \notin R[i - 1].shownReminders
             THEN [shownReminders |->
                     R[i - 1].shownReminders \cup {ReminderKey(notes[i])},
                   alerts |->
                     Append(R[i - 1].alerts, [note |-> notes[i], at |-> t])]
             ELSE R[i - 1]
  IN R[Len(notes)]

\* checkReminders, called by the DOMContentLoaded handler and then by the
\* timer of setInterval.
CheckReminders ==
  /\ LET r == Reminded(client.notes, now, client)
     IN client' = [client EXCEPT !.shownReminders = r.shownReminders,
                                 !.alerts = r.alerts]
  /\ UNCHANGED <<files, backups, now, procs, started>>

\* ------------------------------------------- the page's requests (app.js)
\* response.ok
Ok(pr) == pr.status \in {200, 201}

\* renderNotes() on the page state c.
Render(c) == [c EXCEPT !.shown = FilteredNotes(c.notes, c.filter)]

\* noteData of handleFormSubmit: the title and the content trimmed, the
\* category, the reminder checkbox, and the date when the box is checked
\* and a date is set, else null.
FormBody(title, category, isReminder, reminderDate) ==
  [NoBody EXCEPT !.title = title, !.content = "C", !.category = category,
                 !.isReminder = isReminder, !.reminderDate = reminderDate]

\* The forms the user submits: no reminder; a reminder for the clock 3 and
\* one past the end of the run; the box checked with no date; a title of
\* blanks, which trim() makes empty.
FormBodies ==
  {FormBody("T", "Personal", JsFalse, Null),
   FormBody("T", "Work", JsTrue, Iso(MaxClock)),
   FormBody("T", "Work", JsTrue, Iso(MaxClock + 2)),
   FormBody("T", "Work", JsTrue, Null),
   FormBody("", "Personal", JsFalse, Null)}

\* Notes with a reminder stored by an earlier run: one for the clock 3,
\* and one for the clock 2 that is completed.
SeedReminder ==
  NewNote(FormBody("T", "Work", JsTrue, Iso(MaxClock)), 0, 0, 0)

SeedCompleted ==
  [NewNote(FormBody("T", "Work", JsTrue, Iso(MaxClock - 1)), -1, -1, -1)
     EXCEPT !.completed = JsTrue]

\* The stores the runs of the page's requests start from.
PageContents == {Stringify(<<SeedCompleted, SeedReminder>>), Garbage}

\* The ids of the cards on the page.
CardIds == {client.shown[i].id : i \in 1..Len(client.shown)}

\* The DOMContentLoaded handler: loadNotes().
LoadFirst ==
  /\ ~client.loaded
  /\ LoadNotes(1)

\* The user submits the form of a new note: createNote(noteData) sends
\* its POST.  The user acts once the first loadNotes has returned.
CreateNote(b) ==
  /\ client.loaded
  /\ Start(1, Request("create", "", b), MaxRequests)

\* createNote after its awaits: notes.push(newNote) and renderNotes() when
\* the response is ok, else the error is shown and rethrown.
NoteCreated ==
  /\ procs[1].pc = "done"
  /\ procs[1].op = "create"
  /\ client' = IF Ok(procs[1])
                THEN Render([client EXCEPT
                               !.notes = Append(@, procs[1].result)])
                ELSE client
  /\ procs' = [procs EXCEPT ![1] = Idle]
  /\ UNCHANGED <<files, backups, now, started>>

\* The user submits the form of the card id: updateNote(editingNoteId,
\* noteData) sends its PUT.
UpdateNote(id, b) ==
  /\ client.loaded
  /\ id \in CardIds
  /\ Start(1, Request("update", id, b), MaxRequests)

\* notes[index] = updatedNote when index !== -1.
Replaced(notes, id, note) ==
  IF FindIndex(notes, id) = 0 THEN notes
  ELSE [notes EXCEPT ![FindIndex(notes, id)] = note]

\* The request at the slot is toggleCompletion's: its body is
\* { completed } alone; the form's has a title.
IsToggle(pr) == pr.op = "update" /\ pr.body.title = Undefined

\* updateNote after its awaits.
NoteUpdated ==
  /\ procs[1].pc = "done"
  /\ procs[1].op = "update"
  /\ ~IsToggle(procs[1])
  /\ client' = IF Ok(procs[1])
                THEN Render([client EXCEPT
                               !.notes = Replaced(@, procs[1].id,
                                                  procs[1].result)])
                ELSE client
  /\ procs' = [procs EXCEPT ![1] = Idle]
  /\ UNCHANGED <<files, backups, now, started>>

\* The toggle button of the card i: toggleCompletion(noteId,
\* !currentCompleted) sends its PUT.
ToggleCompletion(i) ==
  /\ client.loaded
  /\ i \in 1..Len(client.shown)
  /\ Start(1, Request("update", client.shown[i].id,
                      [NoBody EXCEPT !.completed =
                         IF client.shown[i].completed = JsTrue
                         THEN JsFalse ELSE JsTrue]),
           MaxRequests)

\* toggleCompletion after its awaits: on a response that is ok the note
\* is replaced and the page rendered, or, when the page does not hold the
\* id, loadNotes() is awaited.
NoteToggled ==
  /\ procs[1].pc = "done"
  /\ IsToggle(procs[1])
  /\ IF Ok(procs[1]) /\ FindIndex(client.notes, procs[1].id) = 0
     THEN /\ procs' = [procs EXCEPT ![1] =
                         [Idle EXCEPT !.op = "list", !.pc = "readFile"]]
          /\ client' = client
     ELSE /\ procs' = [procs EXCEPT ![1] = Idle]
          /\ client' = IF Ok(procs[1])
                        THEN Render([client EXCEPT
                                       !.notes = Replaced(@, procs[1].id,
                                                          procs[1].result)])
                        ELSE client
  /\ UNCHANGED <<files, backups, now, started>>

\* The delete button of the card id, confirmed: deleteNote(id) sends its
\* DELETE.
DeleteNote(id) ==
  /\ client.loaded
  /\ id \in CardIds
  /\ Start(1, Request("delete", id, NoBody), MaxRequests)

\* deleteNote after its awaits.
NoteDeleted ==
  /\ procs[1].pc = "done"
  /\ procs[1].op = "delete"
  /\ client' = IF Ok(procs[1])
                THEN Render([client EXCEPT
                               !.notes = FilterOut(@, procs[1].id)])
                ELSE client
  /\ procs' = [procs EXCEPT ![1] = Idle]
  /\ UNCHANGED <<files, backups, now, started>>

\* The ids of the notes of a run with the page.
PageIds == Ids \cup {IdOf(0), IdOf(-1)}

\* What the user and the page's functions do, the user submitting the
\* forms of the set given.
PageStep(forms) ==
  \/ LoadFirst
  \/ NotesLoaded(1)
  \/ \E b \in forms : CreateNote(b)
  \/ NoteCreated
  \/ \E id \in PageIds, b \in forms : UpdateNote(id, b)
  \/ NoteUpdated
  \/ \E i \in 1..MaxRequests : ToggleCompletion(i)
  \/ NoteToggled
  \/ \E id \in PageIds : DeleteNote(id)
  \/ NoteDeleted

\* The server's steps on the page's request, every file operation
\* succeeding.
ServeStep ==
  \/ ReadFile(1)
  \/ BackupRead(1)
  \/ BackupWrite(1)
  \/ WOpen(1)
  \/ WWrite(1)
  \/ WRename(1)

\* One page with its reminder timer, the server answering its requests,
\* every file operation succeeding.
NextPage ==
  \/ Tick
  \/ PageStep(FormBodies)
  \/ ServeStep
  \/ CheckReminders

SpecPage == InitOf(PageContents) /\ [][NextPage]_vars

\* The timer of setInterval(checkReminders, 30000) fires again and again.
SpecPageFair == SpecPage /\ WF_vars(CheckReminders)

\* ----------------------------------------------------------------- C26
\* A notification has been shown for this id and reminderDate.
ShownFor(id, d) ==
  \E k \in 1..Len(client.alerts) :
    /\ client.alerts[k].note.id = id
    /\ client.alerts[k].note.reminderDate = d

\* The page holds a note that has isReminder set, a reminderDate whose
\* time has been reached, and is not completed, and no notification has
\* been shown for its id and reminderDate.
OverdueUnshown ==
  \E i \in 1..Len(client.notes) :
    /\ client.notes[i].isReminder = JsTrue
    /\ client.notes[i].completed = JsFalse
    /\ IsDate(client.notes[i].reminderDate)
    /\ TimeOf(client.notes[i].reminderDate) <= now
    /\ ~ShownFor(client.notes[i].id, client.notes[i].reminderDate)

FailStep ==
  \/ WUnlink(1)
  \/ ReadFault(1)
  \/ WriteFault(1)

\* The forms of the runs in which file operations fail: a note with no
\* reminder and a title of blanks.
FewForms ==
  {FormBody("T", "Personal", JsFalse, Null),
   FormBody("", "Personal", JsFalse, Null)}

\* One page, the server answering its requests; once the first loadNotes
\* has returned, any file operation of readNotes and of writeNotes fails.
NextPageFault ==
  \/ Tick
  \/ PageStep(FewForms)
  \/ ServeStep
  \/ /\ client.loaded
     /\ FailStep

SpecPageFault == InitOf(PageContents) /\ [][NextPageFault]_vars

\* ----------------------------------------------------------------- C27
\* C27: once the first loadNotes has returned, whenever no function of the
\* page awaits a response (every operation the user started has
\* completed, with a success or with an error answer), the page's notes
\* are the persisted collection: the same notes in the same order.
C27_PageEqualsStore ==
  (client.loaded /\ procs[1].pc = "idle")
    => client.notes = Stored(files.data)
====
